---- MODULE Spec2Model ----
(***************************************************************************)
(* Column decoders of tracklib2 (src/tracklib2/src/read/decoders.rs):      *)
(* validate_column, I64Decoder, BoolDecoder, StringDecoder, each bound to  *)
(* one field's column buffer and one presence view; and create_schema of   *)
(* the Ruby binding (src/ruby_tracklib2/src/schema.rs).                    *)
(*                                                                         *)
(* Representation of machine integers.  TLC's integers are 32 bits wide,   *)
(* so a 64-bit word is kept as three limbs <<l0, l1, l2>>, least           *)
(* significant first: l0 and l1 hold 28 bits each (four LEB128 groups of   *)
(* 7 bits), l2 holds the top 8 bits.  An i64 is the two's complement bit   *)
(* pattern, a u64 the plain one.  A u32 checksum is a tuple of 4 bytes,    *)
(* most significant first.  A byte is a number in 0..255; a slice is a     *)
(* sequence of bytes; a String is the sequence of its UTF-8 bytes; a bool  *)
(* value b is the one-element tuple <<b>>, so that every value is a tuple. *)
(***************************************************************************)
EXTENDS Integers, Sequences, FiniteSets, TLC

VARIABLES typ, buf, bits, dec, built, out, aborted, overflow_checks, vals,
          ruby_schema, schema

vars == <<typ, buf, bits, dec, built, out, aborted, overflow_checks, vals,
          ruby_schema, schema>>

(***************************************************************************)
(* Bounds of the model.                                                    *)
(***************************************************************************)
MaxRows == 2
MaxPayloadLen == 2
MaxExtraCalls == 2
PairRows == 1
MaxValues == 2
MaxEntries == 2

\* const CRC_BYTES: usize = 4;
CRC_BYTES == 4

(***************************************************************************)
(* Slices.                                                                 *)
(***************************************************************************)
Drop(s, n) == SubSeq(s, n + 1, Len(s))

Take(s, n) == SubSeq(s, 1, n)

Fields == DOMAIN typ

(***************************************************************************)
(* 64-bit words as limbs.                                                  *)
(***************************************************************************)
LimbBase == 2^28

TopBase == 2^8

W64Zero == <<0, 0, 0>>

\* the i64 bit pattern of a small integer n, |n| < 2^28
I64Of(n) == IF n >= 0 THEN <<n, 0, 0>> ELSE <<LimbBase + n, LimbBase - 1, TopBase - 1>>

I64Max == <<LimbBase - 1, LimbBase - 1, 127>>

I64Min == <<0, 0, 128>>

IsNeg(a) == a[3] >= 128

\* a + b modulo 2^64
WrappingAdd(a, b) ==
    LET s0 == a[1] + b[1]
        s1 == a[2] + b[2] + (s0 \div LimbBase)
        s2 == a[3] + b[3] + (s1 \div LimbBase)
    IN  <<s0 % LimbBase, s1 % LimbBase, s2 % TopBase>>

\* signed overflow of a + b: the operands agree in sign and the sum does not
AddOverflows(a, b) == IsNeg(a) = IsNeg(b) /\ IsNeg(WrappingAdd(a, b)) # IsNeg(a)

\* -a modulo 2^64
WrappingNeg(a) ==
    WrappingAdd(<<LimbBase - 1 - a[1], LimbBase - 1 - a[2], TopBase - 1 - a[3]>>, <<1, 0, 0>>)

WrappingSub(a, b) == WrappingAdd(a, WrappingNeg(b))

\* signed overflow of a - b
SubOverflows(a, b) == IsNeg(a) # IsNeg(b) /\ IsNeg(WrappingSub(a, b)) # IsNeg(a)

\* arithmetic shift right by 7
Sar7(a) ==
    <<(a[1] \div 128) + (a[2] % 128) * 2^21,
      (a[2] \div 128) + (a[3] % 128) * 2^21,
      (a[3] \div 128) + (IF IsNeg(a) THEN 254 ELSE 0)>>

\* logical shift right by 7
Shr7(a) ==
    <<(a[1] \div 128) + (a[2] % 128) * 2^21,
      (a[2] \div 128) + (a[3] % 128) * 2^21,
      a[3] \div 128>>

\* the word with the 7-bit group g at bit 7*pos (bits past 63 fall off, as
\* `(byte as i64) << shift` drops them)
Group(g, pos) ==
    LET limb == pos \div 4
        v == g * 128^(pos % 4)
    IN  <<IF limb = 0 THEN v ELSE 0,
          IF limb = 1 THEN v ELSE 0,
          IF limb = 2 THEN v % TopBase ELSE 0>>

\* the word with every bit from 7*pos up set (`!0 << (7*pos)`), pos in 1..9
OnesFrom(pos) ==
    LET limb == pos \div 4
        low == 128^(pos % 4)
    IN  <<IF limb = 0 THEN LimbBase - low ELSE 0,
          IF limb = 0 THEN LimbBase - 1 ELSE IF limb = 1 THEN LimbBase - low ELSE 0,
          IF limb = 2 THEN TopBase - low ELSE TopBase - 1>>

\* a | b for words with no bit in common
OrDisjoint(a, b) == <<a[1] + b[1], a[2] + b[2], a[3] + b[3]>>

\* a usize that fits a TLC integer, as a word
W64OfNat(n) == <<n % LimbBase, n \div LimbBase, 0>>

\* a > n for a u64 word a and a small natural n
W64Exceeds(a, n) == a[3] > 0 \/ a[2] > 0 \/ a[1] > n

(***************************************************************************)
(* Parser results and errors.  A nom parser returns the rest of the input  *)
(* and a value, or nom::Err::Incomplete(Needed::Size(n)), or               *)
(* nom::Err::Error(kind).                                                  *)
(***************************************************************************)
NoErr == [variant |-> "", needed |-> "", size |-> <<>>, error_kind |-> ""]

ParseOk(rest, value) == [ok |-> TRUE, rest |-> rest, value |-> value, err |-> NoErr]

Incomplete(n) ==
    [ok |-> FALSE, rest |-> <<>>, value |-> <<>>,
     err |-> [variant |-> "Incomplete", needed |-> "Size", size |-> n, error_kind |-> ""]]

NomError(kind) ==
    [ok |-> FALSE, rest |-> <<>>, value |-> <<>>,
     err |-> [variant |-> "Error", needed |-> "", size |-> <<>>, error_kind |-> kind]]

(***************************************************************************)
(* TracklibError.  needed is "Unknown" or "Size" (with size) for           *)
(* ParseIncompleteError; expected and computed are u32 for CRC32Error.     *)
(***************************************************************************)
ParseIncompleteError(needed, size) ==
    [name |-> "ParseIncompleteError", needed |-> needed, size |-> size,
     error_kind |-> "", expected |-> <<>>, computed |-> <<>>]

ParseError(kind) ==
    [name |-> "ParseError", needed |-> "", size |-> <<>>,
     error_kind |-> kind, expected |-> <<>>, computed |-> <<>>]

CRC32Error(expected, computed) ==
    [name |-> "CRC32Error", needed |-> "", size |-> <<>>,
     error_kind |-> "", expected |-> expected, computed |-> computed]

\* the `?` operator: From<nom::Err<_>> for TracklibError
FromNomErr(e) ==
    IF e.variant = "Incomplete"
       THEN ParseIncompleteError(e.needed, e.size)
       ELSE ParseError(e.error_kind)

\* "ran out of rows, this is an error"
RowsRanOut == ParseIncompleteError("Unknown", <<>>)

(***************************************************************************)
(* nom_leb128: leb128_i64, leb128_u64.                                     *)
(***************************************************************************)
\* leb128_size::<i64>() = ceil(64 / 7)
Leb128Size == (64 + 6) \div 7

RECURSIVE Leb128Loop(_, _, _, _)
Leb128Loop(input, pos, res, signed) ==
    IF pos >= Len(input)
       THEN Incomplete(<<1, 0, 0>>)
       ELSE LET byte == input[pos + 1]
            IN  IF byte < 128
                   THEN LET r1 == OrDisjoint(res, Group(byte, pos))
                            r2 == IF signed /\ 7 * pos < 64 - 7 /\ (byte \div 64) % 2 = 1
                                     THEN OrDisjoint(r1, OnesFrom(pos + 1))
                                     ELSE r1
                        IN  ParseOk(Drop(input, pos + 1), r2)
                   ELSE IF pos = Leb128Size - 1
                           THEN NomError("TooLarge")
                           ELSE Leb128Loop(input, pos + 1,
                                           OrDisjoint(res, Group(byte % 128, pos)), signed)

leb128_i64(input) == Leb128Loop(input, 0, W64Zero, TRUE)

leb128_u64(input) == Leb128Loop(input, 0, W64Zero, FALSE)

(***************************************************************************)
(* nom::number::complete::le_u8 and nom::multi::length_data.               *)
(***************************************************************************)
le_u8(input) ==
    IF Len(input) = 0 THEN NomError("Eof") ELSE ParseOk(Tail(input), Head(input))

length_data_leb128_u64(input) ==
    LET r == leb128_u64(input)
    IN  IF ~r.ok THEN r
        ELSE IF W64Exceeds(r.value, Len(r.rest))
                THEN Incomplete(WrappingSub(r.value, W64OfNat(Len(r.rest))))
                ELSE ParseOk(Drop(r.rest, r.value[1]), Take(r.rest, r.value[1]))

(***************************************************************************)
(* String::from_utf8: whether the bytes are well-formed UTF-8.             *)
(***************************************************************************)
IsCont(b) == b >= 128 /\ b <= 191

RECURSIVE ValidUtf8(_)
ValidUtf8(s) ==
    IF Len(s) = 0 THEN TRUE
    ELSE LET b == s[1]
             n == Len(s)
         IN  IF b < 128 THEN ValidUtf8(Drop(s, 1))
             ELSE IF b >= 194 /\ b <= 223
                     THEN n >= 2 /\ IsCont(s[2]) /\ ValidUtf8(Drop(s, 2))
             ELSE IF b >= 224 /\ b <= 239
                     THEN /\ n >= 3
                          /\ IsCont(s[2])
                          /\ (b = 224 => s[2] >= 160)
                          /\ (b = 237 => s[2] <= 159)
                          /\ IsCont(s[3])
                          /\ ValidUtf8(Drop(s, 3))
             ELSE IF b >= 240 /\ b <= 244
                     THEN /\ n >= 4
                          /\ IsCont(s[2])
                          /\ (b = 240 => s[2] >= 144)
                          /\ (b = 244 => s[2] <= 143)
                          /\ IsCont(s[3])
                          /\ IsCont(s[4])
                          /\ ValidUtf8(Drop(s, 4))
             ELSE FALSE

(***************************************************************************)
(* CRC::<u32>::parser: CRC-32 with polynomial 0x04C11DB7, initial value    *)
(* and final xor 0xFFFFFFFF, most significant bit first; the checksum is   *)
(* stored least significant byte first.  (The test vectors of decoders.rs  *)
(* fix both: payload 20 42 00 01 carries 0C 01 49 A3.)                     *)
(***************************************************************************)
RECURSIVE XorBits(_, _, _)
\* a ^ b on the low n bits
XorBits(a, b, n) ==
    IF n = 0 THEN 0 ELSE ((a + b) % 2) + 2 * XorBits(a \div 2, b \div 2, n - 1)

\* a ^ b for 4-bit a, b, tabulated
XorNibble == [p \in (0..15) \X (0..15) |-> XorBits(p[1], p[2], 4)]

Xor8(a, b) == 16 * XorNibble[<<a \div 16, b \div 16>>] + XorNibble[<<a % 16, b % 16>>]

XorU32(a, b) == <<Xor8(a[1], b[1]), Xor8(a[2], b[2]), Xor8(a[3], b[3]), Xor8(a[4], b[4])>>

\* w << 1 on a u32 <<b3, b2, b1, b0>>
ShiftL1(w) ==
    <<(w[1] * 2 + (w[2] \div 128)) % 256,
      (w[2] * 2 + (w[3] \div 128)) % 256,
      (w[3] * 2 + (w[4] \div 128)) % 256,
      (w[4] * 2) % 256>>

\* 0x04C11DB7
CrcPoly == <<4, 193, 29, 183>>

AllOnes == <<255, 255, 255, 255>>

RECURSIVE CrcShift(_, _)
\* k steps of the shift register, most significant bit first
CrcShift(c, k) ==
    IF k = 0 THEN c
    ELSE CrcShift(IF c[1] >= 128 THEN XorU32(ShiftL1(c), CrcPoly) ELSE ShiftL1(c), k - 1)

\* the register after one byte with top byte i, tabulated
CrcTable == [i \in 0..255 |-> CrcShift(<<i, 0, 0, 0>>, 8)]

\* crc = (crc << 8) ^ table[(crc >> 24) ^ byte]
CrcByte(c, byte) ==
    LET t == CrcTable[Xor8(c[1], byte)]
    IN  <<Xor8(c[2], t[1]), Xor8(c[3], t[2]), Xor8(c[4], t[3]), t[4]>>

RECURSIVE CrcUpdate(_, _)
CrcUpdate(c, data) ==
    IF Len(data) = 0 THEN c ELSE CrcUpdate(CrcByte(c, Head(data)), Tail(data))

\* the CRC-32 of data
Crc32(data) == XorU32(CrcUpdate(AllOnes, data), AllOnes)

\* le_u32 of the 4 checksum bytes
LeU32(b) == <<b[4], b[3], b[2], b[1]>>

\* the 4 bytes that store checksum w
U32Le(w) == <<w[4], w[3], w[2], w[1]>>

\* CRC::<u32>::parser(column_data)(crc_bytes): Valid, or Invalid{expected, computed}
CrcParser(column_data, crc_bytes) ==
    LET expected == LeU32(crc_bytes)
        computed == Crc32(column_data)
    IN  [valid |-> expected = computed, expected |-> expected, computed |-> computed]

(***************************************************************************)
(* fn validate_column(data: &[u8]) -> Result<&[u8]>                        *)
(* data.len() - CRC_BYTES underflows for a buffer shorter than 4 bytes:    *)
(* with overflow checks the subtraction panics, without them it wraps and  *)
(* split_at panics because mid > len.                                      *)
(***************************************************************************)
NoError == [name |-> "", needed |-> "", size |-> <<>>,
            error_kind |-> "", expected |-> <<>>, computed |-> <<>>]

\* validate_column with the two checksums of the error exchanged
validate_column_swapped(data, checks) ==
    IF Len(data) < CRC_BYTES
       THEN [kind |-> "Panic", column_data |-> <<>>, err |-> NoError,
             msg |-> IF checks THEN "attempt to subtract with overflow" ELSE "mid > len"]
       ELSE LET column_data == Take(data, Len(data) - CRC_BYTES)
                crc_bytes == Drop(data, Len(data) - CRC_BYTES)
                checksum == CrcParser(column_data, crc_bytes)
            IN  IF checksum.valid
                   THEN [kind |-> "Ok", column_data |-> column_data, err |-> NoError, msg |-> ""]
                   ELSE [kind |-> "Err", column_data |-> <<>>,
                         err |-> CRC32Error(checksum.computed, checksum.expected), msg |-> ""]

\* validate_column that hands the whole buffer, checksum included, to the decoder
validate_column_keeps_crc(data, checks) ==
    IF Len(data) < CRC_BYTES
       THEN [kind |-> "Panic", column_data |-> <<>>, err |-> NoError,
             msg |-> IF checks THEN "attempt to subtract with overflow" ELSE "mid > len"]
       ELSE LET column_data == Take(data, Len(data) - CRC_BYTES)
                crc_bytes == Drop(data, Len(data) - CRC_BYTES)
                checksum == CrcParser(column_data, crc_bytes)
            IN  IF checksum.valid
                   THEN [kind |-> "Ok", column_data |-> data, err |-> NoError, msg |-> ""]
                   ELSE [kind |-> "Err", column_data |-> <<>>,
                         err |-> CRC32Error(checksum.expected, checksum.computed), msg |-> ""]

validate_column(data, checks) ==
    IF Len(data) < CRC_BYTES
       THEN [kind |-> "Panic", column_data |-> <<>>, err |-> NoError,
             msg |-> IF checks THEN "attempt to subtract with overflow" ELSE "mid > len"]
       ELSE LET column_data == Take(data, Len(data) - CRC_BYTES)
                crc_bytes == Drop(data, Len(data) - CRC_BYTES)
                checksum == CrcParser(column_data, crc_bytes)
            IN  IF checksum.valid
                   THEN [kind |-> "Ok", column_data |-> column_data, err |-> NoError, msg |-> ""]
                   ELSE [kind |-> "Err", column_data |-> <<>>,
                         err |-> CRC32Error(checksum.expected, checksum.computed), msg |-> ""]

(***************************************************************************)
(* PresenceColumnView::next(): Some(bit of the next row) while rows        *)
(* remain, None afterwards.  view_bits are the bound field's bits, row the *)
(* number of rows already read.                                            *)
(***************************************************************************)
ViewNext(view_bits, row) ==
    IF row < Len(view_bits)
       THEN [some |-> TRUE, is_present |-> view_bits[row + 1], row |-> row + 1]
       ELSE [some |-> FALSE, is_present |-> FALSE, row |-> row]

(***************************************************************************)
(* Decoders.  A decoder is [data, row, prev]: the unread payload, the      *)
(* position of its presence view, and (I64Decoder only) the running total. *)
(* decode() yields an outcome and the decoder afterwards.                  *)
(***************************************************************************)
NoDecoder == [data |-> <<>>, row |-> 0, prev |-> W64Zero]

\* Ok(Self { data: column_data, presence_column_view, prev: 0 })
NewDecoder(column_data) == [data |-> column_data, row |-> 0, prev |-> W64Zero]

OkSome(v) == [kind |-> "Some", value |-> v, err |-> NoError, msg |-> ""]

OkNone == [kind |-> "None", value |-> <<>>, err |-> NoError, msg |-> ""]

Err(e) == [kind |-> "Err", value |-> <<>>, err |-> e, msg |-> ""]

Panic(m) == [kind |-> "Panic", value |-> <<>>, err |-> NoError, msg |-> m]

\* I64Decoder::decode that returns each delta and keeps no running total
I64Decoder_decode_no_total(d, view_bits, checks) ==
    LET nx == ViewNext(view_bits, d.row)
        d1 == [d EXCEPT !.row = nx.row]
    IN  IF nx.some
           THEN IF nx.is_present
                   THEN LET r == leb128_i64(d1.data)
                        IN  IF ~r.ok
                               THEN [res |-> Err(FromNomErr(r.err)), dec |-> d1]
                               ELSE [res |-> OkSome(r.value), dec |-> [d1 EXCEPT !.data = r.rest]]
                   ELSE [res |-> OkNone, dec |-> d1]
           ELSE [res |-> Err(RowsRanOut), dec |-> d1]

\* I64Decoder::decode that treats the end of the rows as "no value"
I64Decoder_decode_end_is_none(d, view_bits, checks) ==
    LET nx == ViewNext(view_bits, d.row)
        d1 == [d EXCEPT !.row = nx.row]
    IN  IF nx.some /\ nx.is_present
           THEN LET r == leb128_i64(d1.data)
                IN  IF ~r.ok
                       THEN [res |-> Err(FromNomErr(r.err)), dec |-> d1]
                    ELSE IF checks /\ AddOverflows(d1.prev, r.value)
                       THEN [res |-> Panic("attempt to add with overflow"), dec |-> d1]
                    ELSE LET new == WrappingAdd(d1.prev, r.value)
                         IN  [res |-> OkSome(new),
                              dec |-> [d1 EXCEPT !.prev = new, !.data = r.rest]]
           ELSE [res |-> OkNone, dec |-> d1]

\* I64Decoder::decode whose view starts over once it has reported the end
I64Decoder_decode_rewinds(d, view_bits, checks) ==
    LET nx == ViewNext(view_bits, d.row)
        d1 == [d EXCEPT !.row = nx.row]
    IN  IF nx.some
           THEN IF nx.is_present
                   THEN LET r == leb128_i64(d1.data)
                        IN  IF ~r.ok
                               THEN [res |-> Err(FromNomErr(r.err)), dec |-> d1]
                            ELSE IF checks /\ AddOverflows(d1.prev, r.value)
                               THEN [res |-> Panic("attempt to add with overflow"), dec |-> d1]
                            ELSE LET new == WrappingAdd(d1.prev, r.value)
                                 IN  [res |-> OkSome(new),
                                      dec |-> [d1 EXCEPT !.prev = new, !.data = r.rest]]
                   ELSE [res |-> OkNone, dec |-> d1]
           ELSE [res |-> Err(RowsRanOut), dec |-> [d1 EXCEPT !.row = 0]]

\* I64Decoder::decode; `self.prev + value` panics on overflow when the build
\* has overflow checks and wraps otherwise
I64Decoder_decode(d, view_bits, checks) ==
    LET nx == ViewNext(view_bits, d.row)
        d1 == [d EXCEPT !.row = nx.row]
    IN  IF nx.some
           THEN IF nx.is_present
                   THEN LET r == leb128_i64(d1.data)
                        IN  IF ~r.ok
                               THEN [res |-> Err(FromNomErr(r.err)), dec |-> d1]
                            ELSE IF checks /\ AddOverflows(d1.prev, r.value)
                               THEN [res |-> Panic("attempt to add with overflow"), dec |-> d1]
                            ELSE LET new == WrappingAdd(d1.prev, r.value)
                                 IN  [res |-> OkSome(new),
                                      dec |-> [d1 EXCEPT !.prev = new, !.data = r.rest]]
                   ELSE [res |-> OkNone, dec |-> d1]
           ELSE [res |-> Err(RowsRanOut), dec |-> d1]

\* BoolDecoder::decode that asks the view again after an absent row
BoolDecoder_decode_double_query(d, view_bits) ==
    LET nx == ViewNext(view_bits, d.row)
        d1 == [d EXCEPT !.row = nx.row]
    IN  IF nx.some
           THEN IF nx.is_present
                   THEN LET r == le_u8(d1.data)
                        IN  IF ~r.ok
                               THEN [res |-> Err(FromNomErr(r.err)), dec |-> d1]
                               ELSE [res |-> OkSome(<<r.value # 0>>),
                                     dec |-> [d1 EXCEPT !.data = r.rest]]
                   ELSE [res |-> OkNone, dec |-> [d1 EXCEPT !.row = ViewNext(view_bits, nx.row).row]]
           ELSE [res |-> Err(RowsRanOut), dec |-> d1]

\* BoolDecoder::decode that takes only the byte 1 for true
BoolDecoder_decode_one_is_true(d, view_bits) ==
    LET nx == ViewNext(view_bits, d.row)
        d1 == [d EXCEPT !.row = nx.row]
    IN  IF nx.some
           THEN IF nx.is_present
                   THEN LET r == le_u8(d1.data)
                        IN  IF ~r.ok
                               THEN [res |-> Err(FromNomErr(r.err)), dec |-> d1]
                               ELSE [res |-> OkSome(<<r.value = 1>>),
                                     dec |-> [d1 EXCEPT !.data = r.rest]]
                   ELSE [res |-> OkNone, dec |-> d1]
           ELSE [res |-> Err(RowsRanOut), dec |-> d1]

\* BoolDecoder::decode that reads the byte before it looks at the presence bit
BoolDecoder_decode_reads_first(d, view_bits) ==
    LET nx == ViewNext(view_bits, d.row)
        d1 == [d EXCEPT !.row = nx.row]
        r == le_u8(d1.data)
    IN  IF nx.some
           THEN IF nx.is_present
                   THEN IF ~r.ok
                           THEN [res |-> Err(FromNomErr(r.err)), dec |-> d1]
                           ELSE [res |-> OkSome(<<r.value # 0>>),
                                 dec |-> [d1 EXCEPT !.data = r.rest]]
                   ELSE [res |-> OkNone,
                         dec |-> IF r.ok THEN [d1 EXCEPT !.data = r.rest] ELSE d1]
           ELSE [res |-> Err(RowsRanOut), dec |-> d1]

\* BoolDecoder::decode
BoolDecoder_decode(d, view_bits) ==
    LET nx == ViewNext(view_bits, d.row)
        d1 == [d EXCEPT !.row = nx.row]
    IN  IF nx.some
           THEN IF nx.is_present
                   THEN LET r == le_u8(d1.data)
                        IN  IF ~r.ok
                               THEN [res |-> Err(FromNomErr(r.err)), dec |-> d1]
                               ELSE [res |-> OkSome(<<r.value # 0>>),
                                     dec |-> [d1 EXCEPT !.data = r.rest]]
                   ELSE [res |-> OkNone, dec |-> d1]
           ELSE [res |-> Err(RowsRanOut), dec |-> d1]

\* StringDecoder::decode that turns a failed parse into "no value"
StringDecoder_decode_swallows(d, view_bits) ==
    LET nx == ViewNext(view_bits, d.row)
        d1 == [d EXCEPT !.row = nx.row]
    IN  IF nx.some
           THEN IF nx.is_present
                   THEN LET r == length_data_leb128_u64(d1.data)
                        IN  IF ~r.ok
                               THEN [res |-> OkNone, dec |-> d1]
                            ELSE IF ~ValidUtf8(r.value)
                               THEN [res |-> Panic("unwrap on FromUtf8Error"),
                                     dec |-> [d1 EXCEPT !.data = r.rest]]
                            ELSE [res |-> OkSome(r.value),
                                  dec |-> [d1 EXCEPT !.data = r.rest]]
                   ELSE [res |-> OkNone, dec |-> d1]
           ELSE [res |-> Err(RowsRanOut), dec |-> d1]

\* StringDecoder::decode that gives the row back to the view when the value
\* does not parse
StringDecoder_decode_retries(d, view_bits) ==
    LET nx == ViewNext(view_bits, d.row)
        d1 == [d EXCEPT !.row = nx.row]
    IN  IF nx.some
           THEN IF nx.is_present
                   THEN LET r == length_data_leb128_u64(d1.data)
                        IN  IF ~r.ok
                               THEN [res |-> Err(FromNomErr(r.err)), dec |-> d]
                            ELSE IF ~ValidUtf8(r.value)
                               THEN [res |-> Panic("unwrap on FromUtf8Error"),
                                     dec |-> [d1 EXCEPT !.data = r.rest]]
                            ELSE [res |-> OkSome(r.value),
                                  dec |-> [d1 EXCEPT !.data = r.rest]]
                   ELSE [res |-> OkNone, dec |-> d1]
           ELSE [res |-> Err(RowsRanOut), dec |-> d1]

\* StringDecoder::decode that takes the length prefix as part of the text
StringDecoder_decode_keeps_prefix(d, view_bits) ==
    LET nx == ViewNext(view_bits, d.row)
        d1 == [d EXCEPT !.row = nx.row]
    IN  IF nx.some
           THEN IF nx.is_present
                   THEN LET r == length_data_leb128_u64(d1.data)
                            whole == Take(d1.data, Len(d1.data) - Len(r.rest))
                        IN  IF ~r.ok
                               THEN [res |-> Err(FromNomErr(r.err)), dec |-> d1]
                            ELSE IF ~ValidUtf8(whole)
                               THEN [res |-> Panic("unwrap on FromUtf8Error"),
                                     dec |-> [d1 EXCEPT !.data = r.rest]]
                            ELSE [res |-> OkSome(whole),
                                  dec |-> [d1 EXCEPT !.data = r.rest]]
                   ELSE [res |-> OkNone, dec |-> d1]
           ELSE [res |-> Err(RowsRanOut), dec |-> d1]

\* StringDecoder::decode; String::from_utf8(..).unwrap() panics on bytes that
\* are not UTF-8, after self.data has been advanced
StringDecoder_decode(d, view_bits) ==
    LET nx == ViewNext(view_bits, d.row)
        d1 == [d EXCEPT !.row = nx.row]
    IN  IF nx.some
           THEN IF nx.is_present
                   THEN LET r == length_data_leb128_u64(d1.data)
                        IN  IF ~r.ok
                               THEN [res |-> Err(FromNomErr(r.err)), dec |-> d1]
                            ELSE IF ~ValidUtf8(r.value)
                               THEN [res |-> Panic("unwrap on FromUtf8Error"),
                                     dec |-> [d1 EXCEPT !.data = r.rest]]
                            ELSE [res |-> OkSome(r.value),
                                  dec |-> [d1 EXCEPT !.data = r.rest]]
                   ELSE [res |-> OkNone, dec |-> d1]
           ELSE [res |-> Err(RowsRanOut), dec |-> d1]

(***************************************************************************)
(* create_schema (src/ruby_tracklib2/src/schema.rs): a Ruby array of       *)
(* [name, type tag, scale] entries becomes a Schema.  A Ruby value is      *)
(* [class, str, int, items]: str the text of a String or Symbol, int the   *)
(* number of an Integer, items the elements of an Array.  VM::raise and    *)
(* VM::raise_ex leave create_schema with a Ruby exception [class, message];*)
(* a message is the sequence of the pieces that format! joins.             *)
(***************************************************************************)
RNil == [class |-> "NilClass", str |-> "", int |-> 0, items |-> <<>>]

RString(s) == [class |-> "String", str |-> s, int |-> 0, items |-> <<>>]

RSymbol(s) == [class |-> "Symbol", str |-> s, int |-> 0, items |-> <<>>]

RInteger(n) == [class |-> "Integer", str |-> "", int |-> n, items |-> <<>>]

RArray(xs) == [class |-> "Array", str |-> "", int |-> 0, items |-> xs]

\* Array#at: the element at a zero-based index, nil beyond the end
at(array, index) == IF index < Len(array.items) THEN array.items[index + 1] ELSE RNil

NoException == [class |-> "", message |-> <<>>]

\* try_convert_to::<T>(): the value when it is of Ruby class T, else a TypeError
try_convert_to(value, class) ==
    IF value.class = class
       THEN [ok |-> TRUE, value |-> value, exception |-> NoException]
       ELSE [ok |-> FALSE, value |-> RNil,
             exception |-> [class |-> "TypeError", message |-> <<"Error converting to ", class>>]]

\* Integer::to_u64: the low 64 bits of the number (a negative Fixnum wraps)
to_u64(ruby_scale) == I64Of(ruby_scale.int)

\* u8::try_from(u64)
u8_try_from(w) ==
    IF w[2] = 0 /\ w[3] = 0 /\ w[1] <= 255
       THEN [ok |-> TRUE, value |-> w[1], message |-> <<>>]
       ELSE [ok |-> FALSE, value |-> 0,
             message |-> <<"out of range integral type conversion attempted">>]

\* tracklib2::schema::DataType; scale is 0 for every type but F64
DataType(tag, scale) == [tag |-> tag, scale |-> scale]

\* tracklib2::schema::FieldDefinition::new
FieldDefinition_new(name, data_type) == [name |-> name, data_type |-> data_type]

NoField == FieldDefinition_new("", DataType("", 0))

\* tracklib2::schema::Schema::with_fields
Schema_with_fields(fields) == [kind |-> "Schema", fields |-> fields, exception |-> NoException]

\* create_schema left by a Ruby exception; fields are the definitions built
\* before it
Raised(exception, fields) == [kind |-> "Raised", fields |-> fields, exception |-> exception]

NoSchema == [kind |-> "NotYet", fields |-> <<>>, exception |-> NoException]

FieldOk(field) == [ok |-> TRUE, field |-> field, exception |-> NoException]

FieldRaise(exception) == [ok |-> FALSE, field |-> NoField, exception |-> exception]

\* the match on the type tag with the scale cut to its low 8 bits (`as u8`)
match_data_type_truncates(ruby_schema_entry, val) ==
    IF val = "i64" THEN [ok |-> TRUE, data_type |-> DataType("I64", 0), exception |-> NoException]
    ELSE IF val = "f64"
       THEN LET ruby_scale == try_convert_to(at(ruby_schema_entry, 2), "Integer")
            IN  IF ~ruby_scale.ok
                   THEN [ok |-> FALSE, data_type |-> DataType("", 0), exception |-> ruby_scale.exception]
                   ELSE [ok |-> TRUE, data_type |-> DataType("F64", to_u64(ruby_scale.value)[1] % 256),
                         exception |-> NoException]
    ELSE IF val = "u64" THEN [ok |-> TRUE, data_type |-> DataType("U64", 0), exception |-> NoException]
    ELSE IF val = "bool" THEN [ok |-> TRUE, data_type |-> DataType("Bool", 0), exception |-> NoException]
    ELSE IF val = "string" THEN [ok |-> TRUE, data_type |-> DataType("String", 0), exception |-> NoException]
    ELSE IF val = "bool_array" THEN [ok |-> TRUE, data_type |-> DataType("BoolArray", 0), exception |-> NoException]
    ELSE IF val = "u64_array" THEN [ok |-> TRUE, data_type |-> DataType("U64Array", 0), exception |-> NoException]
    ELSE IF val = "byte_array" THEN [ok |-> TRUE, data_type |-> DataType("ByteArray", 0), exception |-> NoException]
    ELSE [ok |-> FALSE, data_type |-> DataType("", 0),
          exception |-> [class |-> "Exception",
                        message |-> <<"Schema Data Type '", val, "' unknown">>]]

\* `match ruby_data_type.to_str()`: the DataType of a tag; for "f64" the
\* entry's third element is the scale and must fit a u8
match_data_type(ruby_schema_entry, val) ==
    IF val = "i64" THEN [ok |-> TRUE, data_type |-> DataType("I64", 0), exception |-> NoException]
    ELSE IF val = "f64"
       THEN LET ruby_scale == try_convert_to(at(ruby_schema_entry, 2), "Integer")
            IN  IF ~ruby_scale.ok
                   THEN [ok |-> FALSE, data_type |-> DataType("", 0), exception |-> ruby_scale.exception]
                   ELSE LET scale == u8_try_from(to_u64(ruby_scale.value))
                        IN  IF ~scale.ok
                               THEN [ok |-> FALSE, data_type |-> DataType("", 0),
                                     exception |-> [class |-> "Exception", message |-> scale.message]]
                               ELSE [ok |-> TRUE, data_type |-> DataType("F64", scale.value),
                                     exception |-> NoException]
    ELSE IF val = "u64" THEN [ok |-> TRUE, data_type |-> DataType("U64", 0), exception |-> NoException]
    ELSE IF val = "bool" THEN [ok |-> TRUE, data_type |-> DataType("Bool", 0), exception |-> NoException]
    ELSE IF val = "string" THEN [ok |-> TRUE, data_type |-> DataType("String", 0), exception |-> NoException]
    ELSE IF val = "bool_array" THEN [ok |-> TRUE, data_type |-> DataType("BoolArray", 0), exception |-> NoException]
    ELSE IF val = "u64_array" THEN [ok |-> TRUE, data_type |-> DataType("U64Array", 0), exception |-> NoException]
    ELSE IF val = "byte_array" THEN [ok |-> TRUE, data_type |-> DataType("ByteArray", 0), exception |-> NoException]
    ELSE [ok |-> FALSE, data_type |-> DataType("", 0),
          exception |-> [class |-> "Exception",
                        message |-> <<"Schema Data Type '", val, "' unknown">>]]

\* the closure of create_schema on one element: a FieldDefinition, or the
\* exception of the first conversion that fails
create_schema_entry(ele) ==
    LET ruby_schema_entry == try_convert_to(ele, "Array")
    IN  IF ~ruby_schema_entry.ok THEN FieldRaise(ruby_schema_entry.exception)
        ELSE
    LET ruby_field_name == try_convert_to(at(ruby_schema_entry.value, 0), "String")
    IN  IF ~ruby_field_name.ok THEN FieldRaise(ruby_field_name.exception)
        ELSE
    LET ruby_data_type == try_convert_to(at(ruby_schema_entry.value, 1), "Symbol")
    IN  IF ~ruby_data_type.ok THEN FieldRaise(ruby_data_type.exception)
        ELSE
    LET data_type == match_data_type(ruby_schema_entry.value, ruby_data_type.value.str)
    IN  IF ~data_type.ok THEN FieldRaise(data_type.exception)
        ELSE FieldOk(FieldDefinition_new(ruby_field_name.value.str, data_type.data_type))

RECURSIVE map_collect(_, _)
\* .into_iter().map(..).collect::<Vec<_>>() and Schema::with_fields: the
\* elements in order, up to the first one that raises
map_collect(elements, fields) ==
    IF elements = <<>> THEN Schema_with_fields(fields)
    ELSE LET r == create_schema_entry(Head(elements))
         IN  IF ~r.ok THEN Raised(r.exception, fields)
             ELSE map_collect(Tail(elements), Append(fields, r.field))

\* create_schema that collects the definitions last entry first
create_schema_reversed(elements) ==
    LET r == map_collect(elements, <<>>)
    IN  IF r.kind = "Schema"
           THEN Schema_with_fields([i \in 1..Len(r.fields) |-> r.fields[Len(r.fields) + 1 - i]])
           ELSE r

create_schema(elements) == map_collect(elements, <<>>)

(***************************************************************************)
(* Inputs: column buffers and presence bits.                               *)
(***************************************************************************)
Types == {"I64", "Bool", "String"}

\* 0x00 0x01 0x42 (B) 0x80 0xFF
ByteAlphabet == {0, 1, 66, 128, 255}

SeqsUpTo(S, n) == UNION {[1..k -> S] : k \in 0..n}

\* payload followed by its CRC-32
Sealed(payload) == payload \o U32Le(Crc32(payload))

\* i64::MAX as a 10-byte LEB128, then the delta +1
OverflowPayload == <<255, 255, 255, 255, 255, 255, 255, 255, 255, 0, 1>>

\* i64::MIN as a 10-byte LEB128, then the delta -1
UnderflowPayload == <<128, 128, 128, 128, 128, 128, 128, 128, 128, 127, 127>>

\* the columns of test_decode_i64, test_decode_bool, test_decode_string,
\* the two overflowing columns, a 10-byte group with no end, a two-byte
\* character, and a string longer than its column
VectorCases ==
    { [typ |-> "I64", payload |-> <<32, 66, 0, 1>>, bits |-> <<TRUE, TRUE, FALSE, TRUE, TRUE>>],
      [typ |-> "Bool", payload |-> <<1, 0>>, bits |-> <<FALSE, TRUE, TRUE>>],
      [typ |-> "String", payload |-> <<1, 82, 3, 105, 100, 101>>, bits |-> <<FALSE, TRUE, TRUE>>],
      [typ |-> "I64", payload |-> OverflowPayload, bits |-> <<TRUE, TRUE>>],
      [typ |-> "I64", payload |-> UnderflowPayload, bits |-> <<TRUE, FALSE, TRUE>>],
      [typ |-> "I64", payload |-> <<255, 255, 255, 255, 255, 255, 255, 255, 255, 128, 0>>,
       bits |-> <<TRUE, TRUE>>],
      [typ |-> "String", payload |-> <<2, 195, 169, 1, 82>>, bits |-> <<TRUE, TRUE>>],
      [typ |-> "String", payload |-> <<3, 105, 100>>, bits |-> <<TRUE>>] }

EnumCases ==
    { [typ |-> t, payload |-> p, bits |-> b] :
        t \in Types, p \in SeqsUpTo(ByteAlphabet, MaxPayloadLen), b \in SeqsUpTo(BOOLEAN, MaxRows) }

\* buffers that are not a sealed payload: the column of test_decode_bad_crc,
\* a sealed payload with one byte changed, and buffers shorter than a checksum
BrokenBuffers ==
    { <<0, 1, 2, 0, 0, 0, 0>>, <<1, 0, 94, 90, 81, 44>>, <<1, 1, 94, 90, 81, 45>>,
      <<>>, <<1>>, <<1, 0>>, <<0, 0, 0>> }

BrokenCases ==
    { [typ |-> t, buf |-> x, bits |-> b] :
        t \in Types, x \in BrokenBuffers, b \in {<<>>, <<TRUE>>, <<FALSE, TRUE>>} }

SealedCases == { [typ |-> c.typ, buf |-> Sealed(c.payload), bits |-> c.bits] : c \in EnumCases \cup VectorCases }

Cases == SealedCases \cup BrokenCases

NotBuilt == [kind |-> "NotYet", err |-> NoError, msg |-> ""]

NoVals == <<>>

InitCase(F, c) ==
    /\ typ = [f \in F |-> c[f].typ]
    /\ buf = [f \in F |-> c[f].buf]
    /\ bits = [f \in F |-> c[f].bits]
    /\ dec = [f \in F |-> NoDecoder]
    /\ built = [f \in F |-> NotBuilt]
    /\ out = [f \in F |-> <<>>]
    /\ aborted = FALSE
    /\ overflow_checks \in BOOLEAN
    /\ ruby_schema = <<>>
    /\ schema = NoSchema

Init ==
    /\ \E c \in [{"A"} -> Cases] : InitCase({"A"}, c)
    /\ vals = [f \in {"A"} |-> NoVals]

(***************************************************************************)
(* Actions: the constructors and decode() of each decoder type, on field f.*)
(***************************************************************************)
New(f) ==
    /\ ~aborted
    /\ built[f].kind = "NotYet"
    /\ LET v == validate_column(buf[f], overflow_checks)
       IN  /\ built' = [built EXCEPT ![f] = [kind |-> v.kind, err |-> v.err, msg |-> v.msg]]
           /\ dec' = [dec EXCEPT ![f] = IF v.kind = "Ok" THEN NewDecoder(v.column_data) ELSE NoDecoder]
           /\ aborted' = (v.kind = "Panic")
    /\ UNCHANGED <<typ, buf, bits, out, overflow_checks, vals, ruby_schema, schema>>

\* I64Decoder::new
I64DecoderNew(f) == typ[f] = "I64" /\ New(f)

\* BoolDecoder::new
BoolDecoderNew(f) == typ[f] = "Bool" /\ New(f)

\* StringDecoder::new
StringDecoderNew(f) == typ[f] = "String" /\ New(f)

CanDecode(f) ==
    /\ ~aborted
    /\ built[f].kind = "Ok"
    /\ Len(out[f]) < Len(bits[f]) + MaxExtraCalls

\* the record of one decode() call: its outcome, and the decoder before and after
Logged(step, before) == [res |-> step.res, before |-> before, after |-> step.dec]

\* decode() on decoders that alias one presence view: the call moves the
\* view of every decoder
Decoded_shared_view(f, step) ==
    /\ dec' = [g \in Fields |-> IF g = f THEN step.dec ELSE [dec[g] EXCEPT !.row = step.dec.row]]
    /\ out' = [out EXCEPT ![f] = Append(@, Logged(step, dec[f]))]
    /\ aborted' = (step.res.kind = "Panic")
    /\ UNCHANGED <<typ, buf, bits, built, overflow_checks, vals, ruby_schema, schema>>

\* the effect of one decode() call on field f: the decoder is replaced by the
\* decoder afterwards, the outcome is returned (logged); a panic ends the process
Decoded(f, step) ==
    /\ dec' = [dec EXCEPT ![f] = step.dec]
    /\ out' = [out EXCEPT ![f] = Append(@, Logged(step, dec[f]))]
    /\ aborted' = (step.res.kind = "Panic")
    /\ UNCHANGED <<typ, buf, bits, built, overflow_checks, vals, ruby_schema, schema>>

I64Decode(f) ==
    /\ typ[f] = "I64"
    /\ CanDecode(f)
    /\ Decoded(f, I64Decoder_decode(dec[f], bits[f], overflow_checks))

BoolDecode(f) ==
    /\ typ[f] = "Bool"
    /\ CanDecode(f)
    /\ Decoded(f, BoolDecoder_decode(dec[f], bits[f]))

StringDecode(f) ==
    /\ typ[f] = "String"
    /\ CanDecode(f)
    /\ Decoded(f, StringDecoder_decode(dec[f], bits[f]))

Next ==
    \/ \E f \in Fields : I64DecoderNew(f)
    \/ \E f \in Fields : BoolDecoderNew(f)
    \/ \E f \in Fields : StringDecoderNew(f)
    \/ \E f \in Fields : I64Decode(f)
    \/ \E f \in Fields : BoolDecode(f)
    \/ \E f \in Fields : StringDecode(f)

Spec == Init /\ [][Next]_vars

(***************************************************************************)
(* The reference encoder of a column (the writer is not part of the        *)
(* decoders): one presence bit per row; for each present row a signed      *)
(* LEB128 delta (I64), one byte (Bool), or an unsigned LEB128 length and   *)
(* the bytes (String); then the CRC-32 of the payload.  A value is         *)
(* [some, value]; an I64 column has an encoding only when every delta      *)
(* `value - prev` fits an i64.                                             *)
(***************************************************************************)
None == [some |-> FALSE, value |-> <<>>]

Some(v) == [some |-> TRUE, value |-> v]

RECURSIVE Sleb128(_)
Sleb128(w) ==
    LET byte == w[1] % 128
        rest == Sar7(w)
        sign == (byte \div 64) % 2 = 1
    IN  IF (rest = W64Zero /\ ~sign) \/ (rest = I64Of(-1) /\ sign)
           THEN <<byte>>
           ELSE <<byte + 128>> \o Sleb128(rest)

RECURSIVE Uleb128(_)
Uleb128(w) ==
    LET byte == w[1] % 128
        rest == Shr7(w)
    IN  IF rest = W64Zero THEN <<byte>> ELSE <<byte + 128>> \o Uleb128(rest)

RECURSIVE EncodeI64(_, _)
EncodeI64(vs, prev) ==
    IF Len(vs) = 0 THEN <<>>
    ELSE IF ~Head(vs).some THEN EncodeI64(Tail(vs), prev)
    ELSE Sleb128(WrappingSub(Head(vs).value, prev)) \o EncodeI64(Tail(vs), Head(vs).value)

RECURSIVE DeltasFit(_, _)
DeltasFit(vs, prev) ==
    IF Len(vs) = 0 THEN TRUE
    ELSE IF ~Head(vs).some THEN DeltasFit(Tail(vs), prev)
    ELSE ~SubOverflows(Head(vs).value, prev) /\ DeltasFit(Tail(vs), Head(vs).value)

RECURSIVE EncodeBool(_)
EncodeBool(vs) ==
    IF Len(vs) = 0 THEN <<>>
    ELSE IF ~Head(vs).some THEN EncodeBool(Tail(vs))
    ELSE <<IF Head(vs).value[1] THEN 1 ELSE 0>> \o EncodeBool(Tail(vs))

RECURSIVE EncodeString(_)
EncodeString(vs) ==
    IF Len(vs) = 0 THEN <<>>
    ELSE IF ~Head(vs).some THEN EncodeString(Tail(vs))
    ELSE Uleb128(W64OfNat(Len(Head(vs).value))) \o Head(vs).value \o EncodeString(Tail(vs))

EncodePayload(t, vs) ==
    IF t = "I64" THEN EncodeI64(vs, W64Zero)
    ELSE IF t = "Bool" THEN EncodeBool(vs)
    ELSE EncodeString(vs)

EncodeColumn(t, vs) ==
    [typ |-> t, buf |-> Sealed(EncodePayload(t, vs)), bits |-> [i \in 1..Len(vs) |-> vs[i].some]]

\* the values of each type that columns are encoded from: the i64 extremes
\* and numbers of one and two LEB128 bytes; both booleans; the empty string,
\* ASCII, a two-byte character (U+00E9) and a four-byte one (U+1F600)
ValuesOf(t) ==
    IF t = "I64" THEN {I64Min, I64Of(-30), I64Of(-1), W64Zero, I64Of(32), I64Of(200), I64Max}
    ELSE IF t = "Bool" THEN {<<TRUE>>, <<FALSE>>}
    ELSE {<<>>, <<82>>, <<105, 100, 101>>, <<195, 169>>, <<240, 159, 152, 128>>}

OptionsOf(t) == {None} \cup {Some(v) : v \in ValuesOf(t)}

Encodable(t, vs) == t = "I64" => DeltasFit(vs, W64Zero)

InitRT ==
    \E t \in Types :
        \E vs \in SeqsUpTo(OptionsOf(t), MaxValues) :
            /\ Encodable(t, vs)
            /\ InitCase({"A"}, [f \in {"A"} |-> EncodeColumn(t, vs)])
            /\ vals = [f \in {"A"} |-> vs]

SpecRT == InitRT /\ [][Next]_vars

(***************************************************************************)
(* Two fields of one batch, each with its own column and its own view onto *)
(* the same rows; their decoders are driven in any interleaving.           *)
(***************************************************************************)
PairBuffers == { Sealed(<<1>>), Sealed(<<1, 255>>), <<0, 1, 2, 0, 0, 0, 0>> }

PairCases ==
    { [typ |-> t, buf |-> x, bits |-> b] :
        t \in Types, x \in PairBuffers, b \in [1..PairRows -> BOOLEAN] }

InitPair ==
    /\ \E c \in [{"A", "B"} -> PairCases] : InitCase({"A", "B"}, c)
    /\ vals = [f \in {"A", "B"} |-> NoVals]

SpecPair == InitPair /\ [][Next]_vars

(***************************************************************************)
(* create_schema called on a Ruby array of entries.  There are no columns  *)
(* and no decoders in this specification.                                  *)
(***************************************************************************)
FieldNames == {"a", "b"}

TypeTags == {"i64", "f64", "u64", "bool", "string", "bool_array", "u64_array", "byte_array"}

\* tags that no DataType has
OtherTags == {"f32", "I64"}

\* scales of f64 entries: below, within and beyond a u8
Scales == {-1, 0, 255, 256}

\* [name, tag] and [name, "f64", scale] entries that are well-formed Ruby
\* values; a tag with a scale it does not need; and entries of the wrong
\* Ruby classes: no array, a Symbol for the name, a String for the tag, a
\* String for the scale, no scale
RubyEntries ==
    { RArray(<<RString(n), RSymbol(t)>>) : n \in FieldNames, t \in (TypeTags \cup OtherTags) }
    \cup { RArray(<<RString(n), RSymbol("f64"), RInteger(k)>>) : n \in FieldNames, k \in Scales }
    \cup { RArray(<<RString("a"), RSymbol("i64"), RInteger(300)>>),
           RNil,
           RArray(<<RSymbol("a"), RSymbol("i64")>>),
           RArray(<<RString("a"), RString("i64")>>),
           RArray(<<RString("a"), RSymbol("f64"), RString("2")>>) }

InitSchema ==
    /\ ruby_schema \in SeqsUpTo(RubyEntries, MaxEntries)
    /\ schema = NoSchema
    /\ typ = <<>> /\ buf = <<>> /\ bits = <<>> /\ dec = <<>> /\ built = <<>>
    /\ out = <<>> /\ vals = <<>>
    /\ aborted = FALSE
    /\ overflow_checks = FALSE

\* one call of create_schema: its schema is returned, or a Ruby exception
\* leaves it
CreateSchema ==
    /\ schema.kind = "NotYet"
    /\ schema' = create_schema(ruby_schema)
    /\ UNCHANGED <<typ, buf, bits, dec, built, out, aborted, overflow_checks, vals, ruby_schema>>

NextSchema == CreateSchema

SpecSchema == InitSchema /\ [][NextSchema]_vars

(***************************************************************************)
(* Properties.                                                             *)
(***************************************************************************)
Rows(f) == Len(bits[f])

\* row i of field f is a row of the batch and its bit is set / clear
Present(f, i) == i <= Rows(f) /\ bits[f][i]

Absent(f, i) == i <= Rows(f) /\ ~bits[f][i]

Min(a, b) == IF a < b THEN a ELSE b

\* the length of the variable-length integer that starts data: the place of
\* its first byte without the continuation bit, 0 when there is none among
\* the first ten bytes
VarintLen(data) ==
    LET ends == {k \in 1..Min(Len(data), Leb128Size) : data[k] < 128}
    IN  IF ends = {} THEN 0 ELSE CHOOSE k \in ends : \A j \in ends : k <= j

\* data starts with one complete value of type t
HoldsOneValue(t, data) ==
    IF t = "I64" THEN VarintLen(data) > 0
    ELSE IF t = "Bool" THEN Len(data) >= 1
    ELSE /\ VarintLen(data) > 0
         /\ ~W64Exceeds(leb128_u64(data).value, Len(data) - VarintLen(data))

\* the bytes of the first value of type t in data, which holds one
ValueLen(t, data) ==
    IF t = "I64" THEN VarintLen(data)
    ELSE IF t = "Bool" THEN 1
    ELSE VarintLen(data) + leb128_u64(data).value[1]

RECURSIVE ValueCount(_, _)
\* how many complete values of type t data holds, and what is left after them
ValueCount(t, data) ==
    IF Len(data) = 0 \/ ~HoldsOneValue(t, data)
       THEN [count |-> 0, left |-> Len(data)]
       ELSE LET r == ValueCount(t, Drop(data, ValueLen(t, data)))
            IN  [count |-> r.count + 1, left |-> r.left]

PresentCount(f) == Cardinality({i \in 1..Rows(f) : bits[f][i]})

\* the validated payload of field f's column, whose buffer holds a checksum
PayloadOf(f) == Take(buf[f], Len(buf[f]) - CRC_BYTES)

(* C1: for every decoder type, the decode() call after the last row of the
   view (call R+1 on a view of R rows) returns the rows-ran-out error,
   ParseIncompleteError { needed: Unknown }: not Ok(None), not a value. *)
C1_ExhaustionIsError ==
    \A f \in Fields :
        \A i \in DOMAIN out[f] :
            i = Rows(f) + 1 => out[f][i].res = Err(RowsRanOut)

C1_Witness ==
    \E f \in Fields :
        /\ typ[f] = "String"
        /\ Rows(f) >= 2
        /\ Len(out[f]) = Rows(f) + 1
        /\ out[f][Rows(f)].res.kind = "Some"

(* C2: for every decoder type, a decode() call on an absent row returns
   Ok(None) and leaves the payload cursor where it was, whatever the unread
   payload is (empty, or not a value). *)
C2_AbsenceLaw ==
    \A f \in Fields :
        \A i \in DOMAIN out[f] :
            Absent(f, i) =>
                /\ out[f][i].res = OkNone
                /\ out[f][i].after.data = out[f][i].before.data

C2_Witness ==
    \E f \in Fields :
        \E i \in DOMAIN out[f] :
            /\ typ[f] = "I64"
            /\ Absent(f, i)
            /\ out[f][i].before.data = <<128>>
            /\ out[f][i].res = OkNone

RECURSIVE Deltas(_)
\* the signed deltas a payload holds, in order
Deltas(data) ==
    IF ~HoldsOneValue("I64", data) THEN <<>>
    ELSE <<leb128_i64(data).value>> \o Deltas(Drop(data, VarintLen(data)))

RECURSIVE ExactSum(_, _)
\* the sum of the first n deltas of ds: [low, wraps] stands for the integer
\* low + wraps * 2^64, low being an i64
ExactSum(ds, n) ==
    IF n = 0 THEN [low |-> W64Zero, wraps |-> 0]
    ELSE LET s == ExactSum(ds, n - 1)
         IN  [low |-> WrappingAdd(s.low, ds[n]),
              wraps |-> s.wraps + (IF ~AddOverflows(s.low, ds[n]) THEN 0
                                   ELSE IF IsNeg(ds[n]) THEN -1 ELSE 1)]

PresentUpTo(f, i) == Cardinality({j \in 1..i : bits[f][j]})

(* C3: for I64Decoder, the value returned on a present row is the sum,
   from 0, of the deltas of the present rows up to that row, and an absent
   row leaves the running total unchanged; the column 20 42 00 01 with
   presence [present, present, absent, present, present] decodes to
   Some(32), Some(-30), None, Some(-30), Some(-29). *)
C3_DeltaPersistence ==
    \A f \in Fields :
        typ[f] = "I64" =>
            /\ \A i \in DOMAIN out[f] :
                   /\ (Present(f, i) /\ out[f][i].res.kind = "Some") =>
                          LET sum == ExactSum(Deltas(PayloadOf(f)), PresentUpTo(f, i))
                          IN  sum.wraps = 0 /\ out[f][i].res.value = sum.low
                   /\ Absent(f, i) => out[f][i].after.prev = out[f][i].before.prev
            /\ (/\ buf[f] = Sealed(<<32, 66, 0, 1>>)
                /\ bits[f] = <<TRUE, TRUE, FALSE, TRUE, TRUE>>
                /\ Len(out[f]) >= 5) =>
                   /\ out[f][1].res = OkSome(I64Of(32))
                   /\ out[f][2].res = OkSome(I64Of(-30))
                   /\ out[f][3].res = OkNone
                   /\ out[f][4].res = OkSome(I64Of(-30))
                   /\ out[f][5].res = OkSome(I64Of(-29))

\* a buffer that holds a checksum which is not the CRC-32 of what precedes it
Mismatch(b) ==
    /\ Len(b) >= CRC_BYTES
    /\ LeU32(Drop(b, Len(b) - CRC_BYTES)) # Crc32(Take(b, Len(b) - CRC_BYTES))

(* C4: constructing a decoder from a buffer whose trailing 4 bytes are not
   the CRC-32 of the bytes before them fails with CRC32Error { expected:
   the stored checksum, computed: the CRC-32 of the payload }, and there is
   no decoder: decode() never returns anything for that column.  For
   00 01 02 00 00 00 00 the error has expected 0x00000000 and computed
   0x9300784D. *)
C4_BadCrcIsRejected ==
    \A f \in Fields :
        /\ (Mismatch(buf[f]) /\ built[f].kind # "NotYet") =>
               /\ built[f].kind = "Err"
               /\ built[f].err = CRC32Error(LeU32(Drop(buf[f], Len(buf[f]) - CRC_BYTES)),
                                            Crc32(PayloadOf(f)))
               /\ dec[f] = NoDecoder
        /\ Mismatch(buf[f]) => out[f] = <<>>
        /\ (buf[f] = <<0, 1, 2, 0, 0, 0, 0>> /\ built[f].kind # "NotYet") =>
               built[f].err = CRC32Error(<<0, 0, 0, 0>>, <<147, 0, 120, 77>>)

C4_Witness ==
    \E f \in Fields :
        /\ buf[f] = <<0, 1, 2, 0, 0, 0, 0>>
        /\ built[f].kind = "Err"
        /\ typ[f] = "String"

(* C5: for StringDecoder, a present row whose length-prefixed bytes are not
   UTF-8 makes decode() return an error to the caller: no string, no None,
   no panic. *)
C5_InvalidUtf8IsError ==
    \A f \in Fields :
        \A i \in DOMAIN out[f] :
            (/\ typ[f] = "String"
             /\ Present(f, i)
             /\ HoldsOneValue("String", out[f][i].before.data)
             /\ ~ValidUtf8(length_data_leb128_u64(out[f][i].before.data).value)) =>
                out[f][i].res.kind = "Err"

(* C6: constructing a decoder returns a decoder or an error for every
   buffer, also one of 0 to 3 bytes; it never panics. *)
C6_ConstructionNeverPanics == \A f \in Fields : built[f].kind \in {"NotYet", "Ok", "Err"}

\* field f has rows, every one of them has been decoded and no call failed
CompletedAllRows(f) ==
    /\ built[f].kind = "Ok"
    /\ Rows(f) >= 1
    /\ Len(out[f]) >= Rows(f)
    /\ \A i \in 1..Rows(f) : out[f][i].res.kind \in {"Some", "None"}

\* the payload of field f holds exactly as many values as f has present rows
CountsAgree(f) ==
    LET vc == ValueCount(typ[f], PayloadOf(f))
    IN  vc.left = 0 /\ vc.count = PresentCount(f)

(* C7: when the payload holds fewer or more values than the view has
   present rows, driving the decoder through all rows reports an error: the
   decoder never completes every row successfully on such a column. *)
C7_DesyncIsFatal == \A f \in Fields : CompletedAllRows(f) => CountsAgree(f)

(* C8: on a present row whose unread payload does not hold one complete
   value (a variable-length integer that is cut short or does not end
   within ten bytes, no byte for a bool, a string length beyond the bytes
   left), decode() returns a parse error, ParseError or
   ParseIncompleteError, not CRC32Error; never Ok(None), never a value. *)
C8_IncompleteValueIsParseError ==
    \A f \in Fields :
        \A i \in DOMAIN out[f] :
            (Present(f, i) /\ ~HoldsOneValue(typ[f], out[f][i].before.data)) =>
                /\ out[f][i].res.kind = "Err"
                /\ out[f][i].res.err.name \in {"ParseError", "ParseIncompleteError"}
                /\ out[f][i].res.value = <<>>

C8_Witness ==
    \E f \in Fields :
        \E i \in DOMAIN out[f] :
            /\ typ[f] = "String"
            /\ Present(f, i)
            /\ out[f][i].before.data = <<66, 1>>
            /\ out[f][i].res.kind = "Err"

\* the outcome that returns the optional value v
OutcomeOf(v) == IF v.some THEN OkSome(v.value) ELSE OkNone

(* C9: a column encoded by the reference encoder from a sequence of
   optional values constructs, and its i-th decode() returns the i-th
   value of the sequence, for every row. *)
C9_RoundTrip ==
    \A f \in Fields :
        /\ built[f].kind \in {"NotYet", "Ok"}
        /\ \A i \in DOMAIN out[f] :
               i <= Len(vals[f]) => out[f][i].res = OutcomeOf(vals[f][i])

C9_Witness ==
    \E f \in Fields :
        /\ typ[f] = "I64"
        /\ vals[f] = <<Some(I64Of(200)), Some(I64Of(-30))>>
        /\ Len(out[f]) = 2

\* decode() of a decoder of type t
DecodeOf(t, d, view_bits, checks) ==
    IF t = "I64" THEN I64Decoder_decode(d, view_bits, checks)
    ELSE IF t = "Bool" THEN BoolDecoder_decode(d, view_bits)
    ELSE StringDecoder_decode(d, view_bits)

RECURSIVE RunAlone(_, _, _, _, _)
\* the records of n decode() calls on decoder d driven on its own
RunAlone(t, d, view_bits, checks, n) ==
    IF n = 0 THEN <<>>
    ELSE LET step == DecodeOf(t, d, view_bits, checks)
         IN  <<Logged(step, d)>> \o RunAlone(t, step.dec, view_bits, checks, n - 1)

\* what a column buffer, its type and its presence bits alone determine: the
\* result of the constructor and the records of the first n decode() calls
AloneBuilt(b, checks) ==
    LET v == validate_column(b, checks)
    IN  [kind |-> v.kind, err |-> v.err, msg |-> v.msg]

AloneOut(t, b, view_bits, checks, n) ==
    LET v == validate_column(b, checks)
    IN  IF v.kind = "Ok" THEN RunAlone(t, NewDecoder(v.column_data), view_bits, checks, n)
        ELSE <<>>

(* C10: the outcomes of decode() on a field's decoder are a function of
   that field's own column bytes and presence bits: whatever the other
   field's column holds and however far its decoder has been driven, in any
   interleaving, they are the outcomes of the decoder driven alone. *)
C10_Independence ==
    \A f \in Fields :
        /\ built[f].kind # "NotYet" => built[f] = AloneBuilt(buf[f], overflow_checks)
        /\ out[f] = AloneOut(typ[f], buf[f], bits[f], overflow_checks, Len(out[f]))

C10_Witness ==
    /\ Fields = {"A", "B"}
    /\ buf["A"] # buf["B"]
    /\ typ["A"] # typ["B"]
    /\ Len(out["A"]) >= 2
    /\ Len(out["B"]) >= 1
    /\ built["B"].kind = "Ok"
    /\ dec["B"].data # PayloadOf("B")
    /\ out["A"][1].res.kind = "Some"

\* the length n that starts data, as a number; n fits the first limb when the
\* value it announces lies within data
PrefixLen(data) == leb128_u64(data).value[1]

(* C12: for StringDecoder, a present row whose unread payload starts with an
   unsigned variable-length length n and n bytes of UTF-8 decodes to exactly
   those n bytes as text, and the cursor moves past the length and the n
   bytes; presence [absent, present, present] with payload
   01 52 03 69 64 65 decodes to None, Some("R"), Some("ide"). *)
C12_StringDecoding ==
    \A f \in Fields :
        typ[f] = "String" =>
            /\ \A i \in DOMAIN out[f] :
                   LET data == out[f][i].before.data
                       text == SubSeq(data, VarintLen(data) + 1, VarintLen(data) + PrefixLen(data))
                   IN  (/\ Present(f, i)
                        /\ HoldsOneValue("String", data)
                        /\ ValidUtf8(text)) =>
                           /\ out[f][i].res = OkSome(text)
                           /\ Len(text) = PrefixLen(data)
                           /\ out[f][i].after.data = Drop(data, VarintLen(data) + PrefixLen(data))
            /\ (/\ buf[f] = Sealed(<<1, 82, 3, 105, 100, 101>>)
                /\ bits[f] = <<FALSE, TRUE, TRUE>>
                /\ Len(out[f]) >= 3) =>
                   /\ out[f][1].res = OkNone
                   /\ out[f][2].res = OkSome(<<82>>)
                   /\ out[f][3].res = OkSome(<<105, 100, 101>>)

C12_Witness ==
    \E f \in Fields :
        /\ typ[f] = "String"
        /\ buf[f] = Sealed(<<1, 82, 3, 105, 100, 101>>)
        /\ bits[f] = <<FALSE, TRUE, TRUE>>
        /\ Len(out[f]) >= 3
        /\ out[f][3].res.kind = "Some"

(* C13: for BoolDecoder, a present row with a payload byte b left consumes
   exactly that one byte and returns Some(true) when b is 1..255 and
   Some(false) when b is 0; the result is decided by b alone, the decoder
   keeps no running state from earlier rows.  Presence [absent, present,
   present] with payload 01 00 decodes to None, Some(true), Some(false). *)
C13_BoolDecoding ==
    \A f \in Fields :
        typ[f] = "Bool" =>
            /\ \A i \in DOMAIN out[f] :
                   LET data == out[f][i].before.data
                   IN  /\ (Present(f, i) /\ Len(data) >= 1) =>
                              /\ out[f][i].res = OkSome(<<data[1] \in 1..255>>)
                              /\ out[f][i].after.data = Tail(data)
                       /\ out[f][i].after.prev = W64Zero
            /\ (/\ buf[f] = Sealed(<<1, 0>>)
                /\ bits[f] = <<FALSE, TRUE, TRUE>>
                /\ Len(out[f]) >= 3) =>
                   /\ out[f][1].res = OkNone
                   /\ out[f][2].res = OkSome(<<TRUE>>)
                   /\ out[f][3].res = OkSome(<<FALSE>>)

C13_Witness ==
    \E f \in Fields :
        /\ typ[f] = "Bool"
        /\ Len(out[f]) >= 2
        /\ Present(f, 1) /\ Present(f, 2)
        /\ out[f][1].before.data = <<255, 0>>
        /\ out[f][1].res = OkSome(<<TRUE>>)
        /\ out[f][2].res = OkSome(<<FALSE>>)

\* s is a suffix of t
IsSuffix(s, t) == Len(s) <= Len(t) /\ s = Drop(t, Len(t) - Len(s))

\* the bytes of the values that the first n decode() calls on field f returned
\* for present rows
RECURSIVE ReturnedBytes(_, _)
ReturnedBytes(f, n) ==
    IF n = 0 THEN 0
    ELSE ReturnedBytes(f, n - 1) +
         (IF Present(f, n) /\ out[f][n].res.kind = "Some"
             THEN ValueLen(typ[f], out[f][n].before.data) ELSE 0)

(* C14: in every state of every decoder the unread payload is a suffix of
   the validated payload and the bytes consumed so far are the bytes of the
   values returned for present rows; a successful decode() on a present row
   moves the cursor by the bytes of exactly one value, and no call moves it
   backwards. *)
C14_CursorInvariant ==
    \A f \in Fields :
        built[f].kind = "Ok" =>
            /\ IsSuffix(dec[f].data, PayloadOf(f))
            /\ Len(PayloadOf(f)) - Len(dec[f].data) = ReturnedBytes(f, Len(out[f]))
            /\ \A i \in DOMAIN out[f] :
                   /\ IsSuffix(out[f][i].after.data, out[f][i].before.data)
                   /\ (Present(f, i) /\ out[f][i].res.kind = "Some") =>
                          /\ HoldsOneValue(typ[f], out[f][i].before.data)
                          /\ out[f][i].after.data =
                                 Drop(out[f][i].before.data, ValueLen(typ[f], out[f][i].before.data))

(* C15: a decoder exists only for a buffer of at least 4 bytes whose last 4
   bytes are the CRC-32 of the bytes before them; the payload the decoder
   starts from is the buffer without those 4 bytes, so that no decode() call
   reads a checksum byte as a value; and no decode() call happens on a
   column whose check has not passed. *)
C15_CrcGuardsPayload ==
    \A f \in Fields :
        /\ built[f].kind = "Ok" =>
               /\ Len(buf[f]) >= CRC_BYTES
               /\ ~Mismatch(buf[f])
               /\ LeU32(Drop(buf[f], Len(buf[f]) - CRC_BYTES)) = Crc32(PayloadOf(f))
               /\ IF out[f] = <<>> THEN dec[f].data = PayloadOf(f)
                                   ELSE out[f][1].before.data = PayloadOf(f)
               /\ Len(PayloadOf(f)) = Len(buf[f]) - 4
               /\ \A i \in DOMAIN out[f] :
                      /\ IsSuffix(out[f][i].before.data, PayloadOf(f))
                      /\ IsSuffix(out[f][i].after.data, PayloadOf(f))
        /\ built[f].kind # "Ok" => (out[f] = <<>> /\ dec[f] = NoDecoder)

C15_Witness ==
    \E f \in Fields :
        /\ typ[f] = "I64"
        /\ buf[f] = Sealed(<<66, 1>>)
        /\ built[f].kind = "Ok"
        /\ Len(out[f]) = 2
        /\ dec[f].data = <<>>

(* C16: for I64Decoder, decode() returns a value or a typed error for every
   sequence of deltas, also when the running total leaves the signed 64-bit
   range (total i64::MAX, then delta +1): it never aborts the process. *)
C16_OverflowNeverAborts ==
    \A f \in Fields :
        typ[f] = "I64" =>
            \A i \in DOMAIN out[f] : out[f][i].res.kind \in {"Some", "None", "Err"}

(* C17: once a decode() call of a decoder has returned the rows-ran-out
   error, every later decode() call of that decoder returns the same error,
   and none of these calls changes the payload cursor or the I64 running
   total. *)
C17_ExhaustionIsPermanent ==
    \A f \in Fields :
        \A i \in DOMAIN out[f] :
            out[f][i].res = Err(RowsRanOut) =>
                \A j \in DOMAIN out[f] :
                    j >= i =>
                        /\ out[f][j].res = Err(RowsRanOut)
                        /\ out[f][j].after.data = out[f][i].before.data
                        /\ out[f][j].after.prev = out[f][i].before.prev
                        /\ (j = Len(out[f]) /\ built[f].kind = "Ok") =>
                               /\ dec[f].data = out[f][i].before.data
                               /\ dec[f].prev = out[f][i].before.prev

C17_Witness ==
    \E f \in Fields :
        /\ typ[f] = "I64"
        /\ Rows(f) >= 1
        /\ Len(out[f]) = Rows(f) + 2
        /\ out[f][Rows(f)].res.kind = "Some"
        /\ dec[f].data # <<>>
        /\ out[f][Rows(f) + 2].res = Err(RowsRanOut)

(* C18: each decode() call queries the presence view exactly once: the
   i-th call, whatever its outcome, finds the view at row i - 1 and leaves
   it at row i (for i up to the row count R), so that after k calls the
   view has advanced exactly k rows; the outcome of call i is governed by
   the bit of row i (None exactly when the bit is clear); the view never
   goes back. *)
C18_ViewQueriedOncePerCall ==
    \A f \in Fields :
        /\ built[f].kind = "Ok" => dec[f].row = Min(Len(out[f]), Rows(f))
        /\ \A i \in DOMAIN out[f] :
               /\ out[f][i].before.row = Min(i - 1, Rows(f))
               /\ out[f][i].after.row = Min(i, Rows(f))
               /\ out[f][i].after.row >= out[f][i].before.row
               /\ Absent(f, i) => out[f][i].res = OkNone
               /\ Present(f, i) => /\ out[f][i].res.kind \in {"Some", "Err", "Panic"}
                                   /\ out[f][i].res # Err(RowsRanOut)
               /\ i > 1 => out[f][i].before.row = out[f][i - 1].after.row

C18_Witness ==
    \E f \in Fields :
        /\ Rows(f) = 2
        /\ Len(out[f]) = 2
        /\ Present(f, 1)
        /\ out[f][1].res.kind = "Err"
        /\ Absent(f, 2)
        /\ dec[f].row = 2

(* C19: a decode() call that fails to parse a value on a present row
   leaves the payload cursor and the running total where they were but has
   used up the row's presence bit; the next decode() call meets the same
   unread payload with the bit of the next row: None when that row is
   absent, the same parse error when it is present, rows-ran-out when there
   is no next row.  The failed row is not tried again. *)
C19_FailedParseConsumesRow ==
    \A f \in Fields :
        \A i \in DOMAIN out[f] :
            (Present(f, i) /\ out[f][i].res.kind = "Err") =>
                /\ out[f][i].after.data = out[f][i].before.data
                /\ out[f][i].after.prev = out[f][i].before.prev
                /\ out[f][i].after.row = out[f][i].before.row + 1
                /\ (i + 1) \in DOMAIN out[f] =>
                       /\ out[f][i + 1].before.data = out[f][i].before.data
                       /\ out[f][i + 1].before.prev = out[f][i].before.prev
                       /\ Absent(f, i + 1) => out[f][i + 1].res = OkNone
                       /\ Present(f, i + 1) => out[f][i + 1].res = out[f][i].res
                       /\ i + 1 > Rows(f) => out[f][i + 1].res = Err(RowsRanOut)

C19_Witness ==
    \E f \in Fields :
        /\ typ[f] = "I64"
        /\ bits[f] = <<TRUE, FALSE>>
        /\ Len(out[f]) = 2
        /\ out[f][1].before.data = <<128>>
        /\ out[f][1].res.kind = "Err"
        /\ out[f][2].res = OkNone
        /\ dec[f].data = <<128>>
        /\ dec[f].row = 2

\* an entry whose type tag is a symbol that names no data type
UnknownTag(e) ==
    /\ e.class = "Array"
    /\ at(e, 1).class = "Symbol"
    /\ at(e, 1).str \notin TypeTags

\* an f64 entry whose scale is an integer outside 0..255
ScaleOutOfRange(e) ==
    /\ e.class = "Array"
    /\ at(e, 1) = RSymbol("f64")
    /\ at(e, 2).class = "Integer"
    /\ at(e, 2).int \notin 0..255

\* the entry at which create_schema stopped
RaisedAt == Len(schema.fields) + 1

(* C11: when an entry of the list has a type tag outside i64, f64, u64,
   bool, string, bool_array, u64_array, byte_array, or an f64 entry has a
   scale outside 0..255, create_schema returns no schema: it ends, at the
   first entry it cannot convert, with a Ruby exception that has a class
   and a message; an unknown tag is reported with the tag in the message,
   a scale out of range as a failed integer conversion. *)
C11_BadEntryFailsConstruction ==
    (/\ schema.kind # "NotYet"
     /\ \E i \in DOMAIN ruby_schema : UnknownTag(ruby_schema[i]) \/ ScaleOutOfRange(ruby_schema[i])) =>
        /\ schema.kind = "Raised"
        /\ schema.exception.class \in {"Exception", "TypeError"}
        /\ schema.exception.message # <<>>
        /\ RaisedAt \in DOMAIN ruby_schema
        /\ \A i \in DOMAIN ruby_schema :
               (UnknownTag(ruby_schema[i]) \/ ScaleOutOfRange(ruby_schema[i])) => RaisedAt <= i
        /\ LET e == ruby_schema[RaisedAt]
           IN  /\ (UnknownTag(e) /\ at(e, 0).class = "String") =>
                      schema.exception = [class |-> "Exception",
                                          message |-> <<"Schema Data Type '", at(e, 1).str, "' unknown">>]
               /\ (ScaleOutOfRange(e) /\ at(e, 0).class = "String") =>
                      schema.exception = [class |-> "Exception",
                                          message |-> <<"out of range integral type conversion attempted">>]

C11_Witness ==
    /\ Len(ruby_schema) = 2
    /\ ruby_schema[1] = RArray(<<RString("a"), RSymbol("bool")>>)
    /\ ruby_schema[2] = RArray(<<RString("b"), RSymbol("f64"), RInteger(256)>>)
    /\ schema.kind = "Raised"

\* the data type that a type tag names
TagNames ==
    [t \in TypeTags |->
        CASE t = "i64" -> "I64" [] t = "f64" -> "F64" [] t = "u64" -> "U64"
          [] t = "bool" -> "Bool" [] t = "string" -> "String" [] t = "bool_array" -> "BoolArray"
          [] t = "u64_array" -> "U64Array" [] t = "byte_array" -> "ByteArray"]

(* C20: when create_schema returns a schema for a list of n entries, the
   schema has exactly n fields, the i-th field has the name of the i-th
   entry and the data type that the entry's tag names, with the entry's
   scale for f64: no entry is dropped, duplicated or moved. *)
C20_SchemaKeepsEntries ==
    schema.kind = "Schema" =>
        /\ Len(schema.fields) = Len(ruby_schema)
        /\ \A i \in DOMAIN ruby_schema :
               LET e == ruby_schema[i]
                   field == schema.fields[i]
               IN  /\ at(e, 1).str \in TypeTags
                   /\ field.name = at(e, 0).str
                   /\ field.data_type.tag = TagNames[at(e, 1).str]
                   /\ at(e, 1).str = "f64" => field.data_type.scale = at(e, 2).int

C20_Witness ==
    /\ schema.kind = "Schema"
    /\ Len(ruby_schema) = 2
    /\ ruby_schema[1] = RArray(<<RString("b"), RSymbol("f64"), RInteger(255)>>)
    /\ ruby_schema[2] = RArray(<<RString("a"), RSymbol("byte_array")>>)
    /\ schema.fields[1].data_type = DataType("F64", 255)

====
